---- MODULE Spec2Model ----
(***************************************************************************)
(* PMaP: course planning over a prerequisite graph (src/main.py).          *)
(*                                                                         *)
(* A str is a sequence of character codes (ASCII), so that upper(),        *)
(* strip(), string comparison and the digit scan of the "nivel" criterion  *)
(* are computed as Python computes them.  A dict is a sequence of entries  *)
(* in insertion order (Python dicts iterate in insertion order); a set is  *)
(* a set, and an iteration over a set of str takes its elements in an      *)
(* order the model chooses (hash order is not fixed by the program).       *)
(***************************************************************************)
EXTENDS Integers, Sequences, FiniteSets, TLC

(***************************************************************************)
(* Bounds of the exploration.                                              *)
(***************************************************************************)
\* Mutating calls (add_course, add_prereq, mark_passed) made on a model
\* object built from PMaPModel() by those calls alone.
MaxOps == 3

\* Mutating calls made on a model object that may also have been loaded
\* from a document.
MaxEdits == 1


(***************************************************************************)
(* Input alphabets.  " b1" carries a leading blank and lower case, so the  *)
(* entry points that strip (add_course, add_prereq, mark_passed) and the   *)
(* one that does not (from_dict) store different codes for it.             *)
(***************************************************************************)
RawCodes == { <<97>>, <<32, 98, 49>>, <<67, 50>> }      \* "a", " b1", "C2"

RawName == <<32, 110>>                                  \* " n"

CreditValues == {0, 1, 2}

CapValues == {0, 1, 2}

\* plan_full's default max_semesters
DefaultMaxSemesters == 12

SemesterValues == {0, 1, DefaultMaxSemesters}

Criteria == {"desbloqueo", "creditos", "nivel", "otro"}

(***************************************************************************)
(* str                                                                     *)
(***************************************************************************)
\* str.upper() on ASCII text
RECURSIVE Upper(_)
Upper(s) ==
    IF s = <<>> THEN <<>>
    ELSE << IF Head(s) \in 97..122 THEN Head(s) - 32 ELSE Head(s) >> \o Upper(Tail(s))

IsSpace(ch) == ch \in {9, 10, 11, 12, 13, 28, 29, 30, 31, 32}

RECURSIVE LStrip(_)
LStrip(s) == IF s # <<>> /\ IsSpace(Head(s)) THEN LStrip(Tail(s)) ELSE s

RECURSIVE RStrip(_)
RStrip(s) ==
    IF s # <<>> /\ IsSpace(s[Len(s)]) THEN RStrip(SubSeq(s, 1, Len(s) - 1)) ELSE s

\* str.strip()
Strip(s) == RStrip(LStrip(s))

\* a < b on str: by code point, a proper prefix first
RECURSIVE StrLess(_, _)
StrLess(a, b) ==
    IF b = <<>> THEN FALSE
    ELSE IF a = <<>> THEN TRUE
    ELSE IF Head(a) # Head(b) THEN Head(a) < Head(b)
    ELSE StrLess(Tail(a), Tail(b))

IsDigit(ch) == ch \in 48..57

\* int() of a run of decimal digits
RECURSIVE DigitsValue(_, _)
DigitsValue(s, acc) ==
    IF s = <<>> THEN acc ELSE DigitsValue(Tail(s), 10 * acc + (Head(s) - 48))

\* the longest prefix of s made of digits
RECURSIVE DigitRun(_)
DigitRun(s) ==
    IF s # <<>> /\ IsDigit(Head(s)) THEN <<Head(s)>> \o DigitRun(Tail(s)) ELSE <<>>

\* re.findall(r'\d+', code)[0], or <<>> when there is no digit
RECURSIVE FirstDigits(_)
FirstDigits(s) ==
    IF s = <<>> THEN <<>>
    ELSE IF IsDigit(Head(s)) THEN DigitRun(s)
    ELSE FirstDigits(Tail(s))

\* level of the "nivel" criterion
Level(code) ==
    LET digits == FirstDigits(code)
    IN  IF digits # <<>> THEN DigitsValue(digits, 0) ELSE 9999

(***************************************************************************)
(* dict and set helpers                                                    *)
(***************************************************************************)
Range(f) == { f[i] : i \in DOMAIN f }

\* the keys of the courses dict, in insertion order
RECURSIVE Keys(_)
Keys(courses) ==
    IF courses = <<>> THEN <<>> ELSE << Head(courses).code >> \o Keys(Tail(courses))

KeySet(courses) == { courses[i].code : i \in 1..Len(courses) }

\* courses[code]
Lookup(courses, code) ==
    courses[CHOOSE i \in 1..Len(courses) : courses[i].code = code]

\* courses[code] = Course(...): an existing key keeps its place
DictSet(courses, rec) ==
    IF rec.code \in KeySet(courses)
    THEN [courses EXCEPT ![CHOOSE i \in 1..Len(courses) : courses[i].code = rec.code] = rec]
    ELSE Append(courses, rec)

Course(code, name, credits) == [code |-> code, name |-> name, credits |-> credits]

\* prereqs.get(code, set())
PrereqsOf(m, code) == IF code \in DOMAIN m.prereqs THEN m.prereqs[code] ELSE {}

\* prereqs[course].add(prereq) on the defaultdict
PrereqsAdd(prereqs, course, prereq) ==
    IF course \in DOMAIN prereqs
    THEN [prereqs EXCEPT ![course] = @ \cup {prereq}]
    ELSE prereqs @@ (course :> {prereq})

\* _ = prereqs[code]: reading a defaultdict creates the key
PrereqsTouch(prereqs, code) ==
    IF code \in DOMAIN prereqs THEN prereqs ELSE prereqs @@ (code :> {})

\* every enumeration of a finite set, as sequences
RECURSIVE Perms(_)
Perms(S) ==
    IF S = {} THEN { <<>> }
    ELSE UNION { { <<x>> \o p : p \in Perms(S \ {x}) } : x \in S }

(***************************************************************************)
(* PMaPModel                                                               *)
(***************************************************************************)
\* PMaPModel(): the dataclass defaults
EmptyModel == [courses |-> <<>>, prereqs |-> [c \in {} |-> {}], passed |-> {}]

\* the placeholder both add_prereq and from_dict create for an unseen code
EnsureCourse(courses, code) ==
    IF code \notin KeySet(courses) THEN Append(courses, Course(code, code, 0))
    ELSE courses

\* the first loop of from_dict
RECURSIVE LoadCourses(_, _)
LoadCourses(courses, list) ==
    IF list = <<>> THEN courses
    ELSE LET c == Head(list)
         IN  LoadCourses(DictSet(courses, Course(Upper(c.code), c.name, c.credits)),
                         Tail(list))

\* the second loop of from_dict; an edge is <<prereq, course>>
RECURSIVE LoadPrereqs(_, _)
LoadPrereqs(m, list) ==
    IF list = <<>> THEN m
    ELSE LET p == Upper(Head(list)[1])
             c == Upper(Head(list)[2])
         IN  LoadPrereqs(
                 [m EXCEPT !.prereqs = PrereqsAdd(m.prereqs, c, p),
                           !.courses = EnsureCourse(EnsureCourse(m.courses, p), c)],
                 Tail(list))

\* from_dict without its last assignment: passed is not restored
FromDictNoPassed(data) ==
    LoadPrereqs([EmptyModel EXCEPT !.courses = LoadCourses(<<>>, data.courses)],
                data.prerequisites)

FromDict(data) ==
    LET withCourses == [EmptyModel EXCEPT !.courses = LoadCourses(<<>>, data.courses)]
        withEdges   == LoadPrereqs(withCourses, data.prerequisites)
    IN  [withEdges EXCEPT !.passed = { Upper(x) : x \in Range(data.passed) }]

\* add_course: returns the model after the call
AddCourseTo(m, code, name, credits) ==
    LET k == Upper(Strip(code))
    IN  [m EXCEPT !.courses = DictSet(m.courses, Course(k, Strip(name), credits)),
                  !.prereqs = PrereqsTouch(m.prereqs, k)]

\* add_prereq: the model after the call, and the exception raised ("" for none)
AddPrereqTo(m, prereq, course) ==
    LET p == Upper(Strip(prereq))
        c == Upper(Strip(course))
    IN  IF c = p THEN [model |-> m, raised |-> "ValueError"]
        ELSE [model  |-> [m EXCEPT
                            !.courses = EnsureCourse(EnsureCourse(m.courses, p), c),
                            !.prereqs = PrereqsAdd(m.prereqs, c, p)],
              raised |-> ""]

\* mark_passed: the model after the call, and the exception raised
MarkPassedTo(m, code) ==
    LET k == Upper(Strip(code))
    IN  IF k \notin KeySet(m.courses) THEN [model |-> m, raised |-> "KeyError"]
        ELSE [model |-> [m EXCEPT !.passed = m.passed \cup {k}], raised |-> ""]

(***************************************************************************)
(* build_graph                                                             *)
(***************************************************************************)
\* the edges <<prereq, course>> held by the prereqs mapping
Edges(m) ==
    { e \in (UNION Range(m.prereqs)) \X (DOMAIN m.prereqs) : e[1] \in m.prereqs[e[2]] }

\* the keys of the adjacency and indegree dicts, in insertion order: the
\* catalog first, then any code only the edges name (setdefault)
GraphKeys(m) ==
    LET extra == ((DOMAIN m.prereqs) \cup UNION Range(m.prereqs)) \ KeySet(m.courses)
    IN  Keys(m.courses) \o (CHOOSE q \in Perms(extra) : TRUE)

Adjacency(m) ==
    [u \in Range(GraphKeys(m)) |-> { c \in DOMAIN m.prereqs : u \in m.prereqs[c] }]

Indegree(m) ==
    [c \in Range(GraphKeys(m)) |-> Cardinality(PrereqsOf(m, c))]

\* the orders in which one run may iterate the adjacency sets: one
\* enumeration of adjacency[u] for every key u
RECURSIVE IterOrdersOver(_, _)
IterOrdersOver(keys, adj) ==
    IF keys = <<>> THEN { [u \in {} |-> <<>>] }
    ELSE { (Head(keys) :> p) @@ f :
             p \in Perms(adj[Head(keys)]), f \in IterOrdersOver(Tail(keys), adj) }

IterOrders(m) == IterOrdersOver(GraphKeys(m), Adjacency(m))

(***************************************************************************)
(* topo_sort                                                               *)
(***************************************************************************)
\* [c for c in keys if pred]: the keys with indegree 0, in dict order
RECURSIVE ZeroKeys(_, _)
ZeroKeys(keys, indeg) ==
    IF keys = <<>> THEN <<>>
    ELSE (IF indeg[Head(keys)] = 0 THEN <<Head(keys)>> ELSE <<>>)
         \o ZeroKeys(Tail(keys), indeg)

\* KahnRelax without the test indegree_copy[v] == 0
RECURSIVE KahnRelaxAlways(_, _, _)
KahnRelaxAlways(vs, q, indeg) ==
    IF vs = <<>> THEN [q |-> q, indeg |-> indeg]
    ELSE KahnRelaxAlways(Tail(vs), Append(q, Head(vs)),
                         [indeg EXCEPT ![Head(vs)] = @ - 1])

\* the inner for of the Kahn loop over the dependents vs of the popped code
RECURSIVE KahnRelax(_, _, _)
KahnRelax(vs, q, indeg) ==
    IF vs = <<>> THEN [q |-> q, indeg |-> indeg]
    ELSE LET v  == Head(vs)
             d  == indeg[v] - 1
         IN  KahnRelax(Tail(vs),
                       IF d = 0 THEN Append(q, v) ELSE q,
                       [indeg EXCEPT ![v] = d])

\* while q: ...
RECURSIVE KahnLoop(_, _, _, _)
KahnLoop(q, order, indeg, it) ==
    IF q = <<>> THEN [order |-> order, indeg |-> indeg]
    ELSE LET u == Head(q)
             r == KahnRelax(it[u], Tail(q), indeg)
         IN  KahnLoop(r.q, Append(order, u), r.indeg, it)

\* path = [v]; cur = u; while cur != v: path.append(cur); cur = parent[cur]
RECURSIVE WalkParents(_, _, _, _)
WalkParents(cur, v, path, parent) ==
    IF cur = v THEN path
    ELSE WalkParents(parent[cur], v, Append(path, cur), parent)

\* the path left as it was walked
NoReverse(s) == s

\* list.reverse()
RECURSIVE Reverse(_)
Reverse(s) == IF s = <<>> THEN <<>> ELSE Reverse(Tail(s)) \o << Head(s) >>

\* dfs(u) and its for loop from position i; st holds visited, stack, parent,
\* cycle (<<>> for None, <<path>> otherwise) and the value returned
RECURSIVE Dfs(_, _, _, _)
RECURSIVE DfsLoop(_, _, _, _, _)
Dfs(u, st, indeg, it) ==
    LET entered == [st EXCEPT !.visited = @ \cup {u}, !.stack = @ \cup {u}]
        r       == DfsLoop(u, 1, entered, indeg, it)
    IN  IF r.found THEN r ELSE [r EXCEPT !.stack = @ \ {u}]

DfsLoop(u, i, st, indeg, it) ==
    IF i > Len(it[u]) THEN st
    ELSE LET v == it[u][i]
         IN  IF indeg[v] > 0
             THEN IF v \notin st.visited
                  THEN LET r == Dfs(v, [st EXCEPT !.parent = (v :> u) @@ @], indeg, it)
                       IN  IF r.found THEN r ELSE DfsLoop(u, i + 1, r, indeg, it)
                  ELSE IF v \in st.stack
                  THEN [st EXCEPT
                          !.cycle = << Reverse(Append(WalkParents(u, v, <<v>>, st.parent), v)) >>,
                          !.found = TRUE]
                  ELSE DfsLoop(u, i + 1, st, indeg, it)
             ELSE DfsLoop(u, i + 1, st, indeg, it)

\* for node, deg in indegree_copy.items(): ... if dfs(node): break
RECURSIVE DfsRoots(_, _, _, _)
DfsRoots(keys, st, indeg, it) ==
    IF keys = <<>> THEN st
    ELSE LET node == Head(keys)
         IN  IF indeg[node] > 0 /\ node \notin st.visited
             THEN LET r == Dfs(node, st, indeg, it)
                  IN  IF r.found THEN r ELSE DfsRoots(Tail(keys), r, indeg, it)
             ELSE DfsRoots(Tail(keys), st, indeg, it)

\* topo_sort, iterating the adjacency sets in the orders it gives
TopoSort(m, it) ==
    LET keys      == GraphKeys(m)
        indegree  == Indegree(m)
        k         == KahnLoop(ZeroKeys(keys, indegree), <<>>, indegree, it)
        has_cycle == Len(k.order) # Len(keys)
        st0       == [visited |-> {}, stack |-> {}, parent |-> [x \in {} |-> x],
                      cycle |-> <<>>, found |-> FALSE]
        search    == IF has_cycle THEN DfsRoots(keys, st0, k.indeg, it) ELSE st0
    IN  [order |-> k.order, has_cycle |-> has_cycle, cycle |-> search.cycle]


(***************************************************************************)
(* candidates, unlock_count, suggest_next_semester                         *)
(***************************************************************************)
\* a < b on tuples of numbers of one length: the first difference decides
RECURSIVE NumsLess(_, _)
NumsLess(a, b) ==
    IF a = <<>> \/ b = <<>> THEN FALSE
    ELSE IF Head(a) # Head(b) THEN Head(a) < Head(b)
    ELSE NumsLess(Tail(a), Tail(b))

\* a < b as sorted compares them: str when the elements are codes ("str"),
\* tuples when they are priority keys ("key")
Less(kind, a, b) ==
    IF kind = "str" THEN StrLess(a, b)
    ELSE \/ NumsLess(a.nums, b.nums)
         \/ a.nums = b.nums /\ StrLess(a.code, b.code)

\* sorted(list): a stable insertion sort (an element goes before the first
\* one that is greater)
SortedBy(list, kind) ==
    LET Insert(sorted, x) ==
            LET after == { j \in 1..Len(sorted) : Less(kind, x, sorted[j]) }
                pos   == IF after = {} THEN Len(sorted) + 1
                         ELSE CHOOSE j \in after : \A k \in after : j <= k
            IN  SubSeq(sorted, 1, pos - 1) \o <<x>> \o SubSeq(sorted, pos, Len(sorted))
        srt[k \in 0..Len(list)] ==
            IF k = 0 THEN <<>> ELSE Insert(srt[k - 1], list[k])
    IN  srt[Len(list)]

\* an indegree that counts the completed prerequisites too
EffectiveIndegreeAll(m) ==
    [c \in KeySet(m.courses) |-> Cardinality(PrereqsOf(m, c))]

\* an indegree that counts the completed prerequisites instead
EffectiveIndegreeInverted(m) ==
    [c \in KeySet(m.courses) |->
        Cardinality({ p \in PrereqsOf(m, c) : p \in m.passed })]

\* current_indegree_effective: over the catalog's keys
EffectiveIndegree(m) ==
    [c \in KeySet(m.courses) |->
        Cardinality({ p \in PrereqsOf(m, c) : p \notin m.passed })]

\* [c for c, d in indeg_eff.items() if d == 0 and c not in self.passed]
RECURSIVE FreeKeys(_, _, _)
FreeKeys(keys, indeg, passed) ==
    IF keys = <<>> THEN <<>>
    ELSE (IF indeg[Head(keys)] = 0 /\ Head(keys) \notin passed
          THEN <<Head(keys)>> ELSE <<>>)
         \o FreeKeys(Tail(keys), indeg, passed)

Candidates(m) ==
    SortedBy(FreeKeys(Keys(m.courses), EffectiveIndegree(m), m.passed), "str")

UnlockCount(m, course_code) ==
    LET adjacency  == Adjacency(m)
        dependents == IF course_code \in DOMAIN adjacency
                      THEN adjacency[course_code] ELSE {}
    IN  Cardinality({ v \in dependents :
                        \A p \in PrereqsOf(m, v) \ {course_code} : p \in m.passed })

Credits(m, code) == Lookup(m.courses, code).credits

\* priority_key(code): a tuple of numbers closed by the code
PriorityKey(m, criterion, code) ==
    IF criterion = "desbloqueo"
    THEN [nums |-> <<0 - UnlockCount(m, code), Credits(m, code)>>, code |-> code]
    ELSE IF criterion = "creditos"
    THEN [nums |-> <<Credits(m, code)>>, code |-> code]
    ELSE IF criterion = "nivel"
    THEN [nums |-> <<Level(code)>>, code |-> code]
    ELSE [nums |-> <<0>>, code |-> code]

\* the candidates, each with its key (sorted computes a key once)
RECURSIVE Keyed(_, _, _)
Keyed(m, criterion, list) ==
    IF list = <<>> THEN <<>>
    ELSE << PriorityKey(m, criterion, Head(list)) >> \o Keyed(m, criterion, Tail(list))

\* sorted(cand, key=priority_key)
RECURSIVE CodesOf(_)
CodesOf(keyed) ==
    IF keyed = <<>> THEN <<>> ELSE << Head(keyed).code >> \o CodesOf(Tail(keyed))

Ranked(m, criterion) == CodesOf(SortedBy(Keyed(m, criterion, Candidates(m)), "key"))

\* GreedyStep testing the total before the course is added
GreedyStepLate(m, acc, code, credit_cap) ==
    LET cr == Credits(m, code)
    IN  IF acc.total <= credit_cap
        THEN [chosen  |-> Append(acc.chosen, code),
              total   |-> acc.total + cr,
              reasons |-> Append(acc.reasons, <<code, cr, UnlockCount(m, code)>>)]
        ELSE acc

\* GreedyStep with < for <=
GreedyStepStrict(m, acc, code, credit_cap) ==
    LET cr == Credits(m, code)
    IN  IF acc.total + cr < credit_cap
        THEN [chosen  |-> Append(acc.chosen, code),
              total   |-> acc.total + cr,
              reasons |-> Append(acc.reasons, <<code, cr, UnlockCount(m, code)>>)]
        ELSE acc

\* one turn of the for loop: acc holds chosen, total, reasons
GreedyStep(m, acc, code, credit_cap) ==
    LET cr == Credits(m, code)
    IN  IF acc.total + cr <= credit_cap
        THEN [chosen  |-> Append(acc.chosen, code),
              total   |-> acc.total + cr,
              reasons |-> Append(acc.reasons, <<code, cr, UnlockCount(m, code)>>)]
        ELSE acc

\* the for loop, left at the first course that does not fit
RECURSIVE GreedyLoopBreak(_, _, _, _)
GreedyLoopBreak(m, acc, list, credit_cap) ==
    IF list = <<>> THEN acc
    ELSE IF acc.total + Credits(m, Head(list)) <= credit_cap
    THEN GreedyLoopBreak(m, [chosen  |-> Append(acc.chosen, Head(list)),
                             total   |-> acc.total + Credits(m, Head(list)),
                             reasons |-> acc.reasons],
                         Tail(list), credit_cap)
    ELSE acc

RECURSIVE GreedyLoop(_, _, _, _)
GreedyLoop(m, acc, list, credit_cap) ==
    IF list = <<>> THEN acc
    ELSE GreedyLoop(m, GreedyStep(m, acc, Head(list), credit_cap), Tail(list), credit_cap)

\* suggest_next_semester: a reason is <<code, credits, unlock count>>
Suggest(m, credit_cap, criterion) ==
    GreedyLoop(m, [chosen |-> <<>>, total |-> 0, reasons |-> <<>>],
               Ranked(m, criterion), credit_cap)

(***************************************************************************)
(* to_dict, plan_full                                                      *)
(***************************************************************************)
\* the orders in which to_dict may list the edges: course by course (in any
\* order of the mapping's keys), the prerequisites of a course in set order
\* [[p, c] for p in pres], pres taken in the order ps
RECURSIVE PairsInto(_, _)
PairsInto(ps, c) ==
    IF ps = <<>> THEN <<>> ELSE << <<Head(ps), c>> >> \o PairsInto(Tail(ps), c)

RECURSIVE EdgeListsOver(_, _)
EdgeListsOver(m, keys) ==
    IF keys = <<>> THEN { <<>> }
    ELSE { PairsInto(ps, Head(keys)) \o rest :
             ps \in Perms(m.prereqs[Head(keys)]), rest \in EdgeListsOver(m, Tail(keys)) }

EdgeLists(m) ==
    UNION { EdgeListsOver(m, keys) :
              keys \in Perms({ c \in DOMAIN m.prereqs : m.prereqs[c] # {} }) }

\* to_dict, listing the edges in the order edgeList
ToDict(m, edgeList) ==
    [courses       |-> m.courses,
     prerequisites |-> edgeList,
     passed        |-> SortedBy(CHOOSE q \in Perms(m.passed) : TRUE, "str")]

\* from_dict(to_dict(m)), for every order to_dict may list the edges in
Copies(m) == { FromDict(ToDict(m, edgeList)) : edgeList \in EdgeLists(m) }

\* temp = model: no copy, temp names the caller's object
PlanCopyAlias(store, copy) ==
    [store |-> [caller |-> store.caller, temp |-> store.caller], ref |-> "caller"]

\* temp = PMaPModel.from_dict(model.to_dict()): the objects after the copy
\* and the object temp names
PlanCopy(store, copy) ==
    [store |-> [caller |-> store.caller, temp |-> copy], ref |-> "temp"]

\* for c in chosen: temp.mark_passed(c); stops at the first exception
RECURSIVE MarkAll(_, _, _)
MarkAll(store, ref, chosen) ==
    IF chosen = <<>> THEN [store |-> store, raised |-> ""]
    ELSE LET r == MarkPassedTo(store[ref], Head(chosen))
         IN  IF r.raised # "" THEN [store |-> store, raised |-> r.raised]
             ELSE MarkAll([store EXCEPT ![ref] = r.model], ref, Tail(chosen))

\* for s in range(1, max_semesters + 1): ...
RECURSIVE PlanLoop(_, _, _, _, _, _, _)
PlanLoop(store, ref, credit_cap, criterion, s, max_semesters, semesters) ==
    IF s > max_semesters
    THEN [store |-> store, semesters |-> semesters, raised |-> ""]
    ELSE LET r == Suggest(store[ref], credit_cap, criterion)
         IN  IF r.chosen = <<>>
             THEN [store |-> store, semesters |-> semesters, raised |-> ""]
             ELSE LET marked == MarkAll(store, ref, r.chosen)
                  IN  IF marked.raised # ""
                      THEN [store |-> marked.store, semesters |-> Append(semesters, r),
                            raised |-> marked.raised]
                      ELSE PlanLoop(marked.store, ref, credit_cap, criterion, s + 1,
                                    max_semesters, Append(semesters, r))

\* plan_full on the caller's model object, copy being what from_dict built
PlanFullOn(m, copy, credit_cap, criterion, max_semesters) ==
    LET working == PlanCopy([caller |-> m], copy)
    IN  PlanLoop(working.store, working.ref, credit_cap, criterion, 1, max_semesters, <<>>)

(***************************************************************************)
(* Documents handed to from_dict (the content of a JSON file).             *)
(***************************************************************************)
DocCourse(code, credits) == [code |-> code, name |-> RawName, credits |-> credits]

\* "a", " b1", "C2" with credits; a code listed twice keeps its first place
DocCourses ==
    { <<>>,
      << DocCourse(<<97>>, 1), DocCourse(<<32, 98, 49>>, 2), DocCourse(<<67, 50>>, 1) >>,
      << DocCourse(<<67, 50>>, 2), DocCourse(<<97>>, 0), DocCourse(<<97>>, 2) >> }

\* none; a chain; a cycle of three; a cycle of two with a tail; a self-edge;
\* a fork; a join
DocPrereqs ==
    { <<>>,
      << <<<<97>>, <<32, 98, 49>>>>, <<<<32, 98, 49>>, <<67, 50>>>> >>,
      << <<<<97>>, <<32, 98, 49>>>>, <<<<32, 98, 49>>, <<67, 50>>>>, <<<<67, 50>>, <<97>>>> >>,
      << <<<<97>>, <<67, 50>>>>, <<<<67, 50>>, <<97>>>>, <<<<67, 50>>, <<32, 98, 49>>>> >>,
      << <<<<97>>, <<97>>>> >>,
      << <<<<97>>, <<32, 98, 49>>>>, <<<<97>>, <<67, 50>>>> >>,
      << <<<<97>>, <<67, 50>>>>, <<<<32, 98, 49>>, <<67, 50>>>> >> }

\* none; "a"; "c2" and "z"
DocPassed ==
    { <<>>, << <<97>> >>, << <<99, 50>>, <<122>> >> }

Docs ==
    { [courses |-> cs, prerequisites |-> ps, passed |-> xs] :
        cs \in DocCourses, ps \in DocPrereqs, xs \in DocPassed }

(***************************************************************************)
(* State: one PMaPModel object from its construction on, the last call on  *)
(* it with what the call returned, and the number of mutating calls the    *)
(* object has taken.                                                       *)
(*                                                                         *)
(* The object is constructed by PMaPModel() or by PMaPModel.from_dict and  *)
(* then changed by add_course, add_prereq and mark_passed.  The observing  *)
(* calls (topo_sort, candidates, suggest_next_semester, plan_full, and the *)
(* to_dict/from_dict round trip) are followed up to their return: a        *)
(* behaviour ends with the observing call it makes.                        *)
(***************************************************************************)
VARIABLES model, last, nops

vars == <<model, last, nops>>

Call(op, args, raised, val) == [op |-> op, args |-> args, raised |-> raised, val |-> val]

Constructors == {"PMaPModel", "from_dict"}

Mutators == {"add_course", "add_prereq", "mark_passed"}

\* no observing call has been made yet
Open == last.op \in Constructors \cup Mutators

\* model = PMaPModel()
InitEmpty ==
    /\ model = EmptyModel
    /\ last = Call("PMaPModel", <<>>, "", <<>>)
    /\ nops = 0

\* model = PMaPModel.from_dict(data)
InitLoaded ==
    \E d \in Docs :
        /\ model = FromDict(d)
        /\ last = Call("from_dict", <<>>, "", <<>>)
        /\ nops = 0

Init == InitEmpty \/ InitLoaded

AddCourse(limit) ==
    /\ Open
    /\ nops < limit
    /\ \E code \in RawCodes, credits \in CreditValues :
        /\ model' = AddCourseTo(model, code, RawName, credits)
        /\ last' = Call("add_course", <<>>, "", <<>>)
        /\ nops' = nops + 1

AddPrereq(limit) ==
    /\ Open
    /\ nops < limit
    /\ \E prereq \in RawCodes, course \in RawCodes :
        LET r == AddPrereqTo(model, prereq, course)
        IN  /\ model' = r.model
            /\ last' = Call("add_prereq", <<>>, r.raised, <<>>)
            /\ nops' = nops + 1

MarkPassed(limit) ==
    /\ Open
    /\ nops < limit
    /\ \E code \in RawCodes :
        LET r == MarkPassedTo(model, code)
        IN  /\ model' = r.model
            /\ last' = Call("mark_passed", Upper(Strip(code)), r.raised, <<>>)
            /\ nops' = nops + 1

QueryTopoSort ==
    /\ Open
    /\ \E it \in IterOrders(model) :
        /\ last' = Call("topo_sort", <<>>, "", TopoSort(model, it))
        /\ UNCHANGED <<model, nops>>

QueryCandidates ==
    /\ Open
    /\ last' = Call("candidates", <<>>, "", Candidates(model))
    /\ UNCHANGED <<model, nops>>

QuerySuggest ==
    /\ Open
    /\ \E credit_cap \in CapValues, criterion \in Criteria :
        /\ last' = Call("suggest_next_semester", <<credit_cap, criterion>>, "",
                        Suggest(model, credit_cap, criterion))
        /\ UNCHANGED <<model, nops>>

\* plan_full(model, ...): last holds the semesters built and the working
\* copy as the call left it
PlanFull ==
    /\ Open
    /\ \E copy \in Copies(model), credit_cap \in CapValues, criterion \in Criteria,
          max_semesters \in SemesterValues :
        \E r \in { PlanFullOn(model, copy, credit_cap, criterion, max_semesters) } :
            /\ model' = r.store.caller
            /\ last' = Call("plan_full", <<credit_cap, criterion, max_semesters>>, r.raised,
                            [semesters |-> r.semesters, temp |-> r.store.temp])
            /\ UNCHANGED nops

\* save_json, load_json, save_json: to_dict, from_dict, to_dict again
RoundTrip ==
    /\ Open
    /\ \E copy \in Copies(model) :
        \E second \in EdgeLists(copy) :
            /\ last' = Call("round_trip", <<>>, "",
                            [copy |-> copy, again |-> ToDict(copy, second)])
            /\ UNCHANGED <<model, nops>>

Next ==
    \/ AddCourse(MaxEdits)
    \/ AddPrereq(MaxEdits)
    \/ MarkPassed(MaxEdits)
    \/ QueryTopoSort
    \/ QueryCandidates
    \/ RoundTrip

Spec == Init /\ [][Next]_vars

NextSuggest ==
    \/ AddCourse(MaxEdits)
    \/ AddPrereq(MaxEdits)
    \/ MarkPassed(MaxEdits)
    \/ QueryCandidates
    \/ QuerySuggest

SpecSuggest == Init /\ [][NextSuggest]_vars

NextPlan ==
    \/ AddCourse(MaxEdits)
    \/ AddPrereq(MaxEdits)
    \/ MarkPassed(MaxEdits)
    \/ PlanFull

SpecPlan == Init /\ [][NextPlan]_vars

\* the object built from PMaPModel() by add_course, add_prereq and
\* mark_passed alone
NextOps ==
    \/ AddCourse(MaxOps)
    \/ AddPrereq(MaxOps)
    \/ MarkPassed(MaxOps)
    \/ QueryCandidates
    \/ QuerySuggest

SpecOps == InitEmpty /\ [][NextOps]_vars

(***************************************************************************)
(* Vocabulary of the properties                                            *)
(***************************************************************************)
\* every code the model mentions
Mentioned(m) == KeySet(m.courses) \cup DOMAIN m.prereqs \cup UNION Range(m.prereqs)

\* the direct dependents, outside the set avoid, of the codes in S
DependentsOf(m, S, avoid) ==
    { c \in (DOMAIN m.prereqs) \ avoid : (m.prereqs[c] \ avoid) \cap S # {} }

\* the codes reached from S by one edge or more, never entering avoid
RECURSIVE ReachedFrom(_, _, _, _)
ReachedFrom(m, frontier, seen, avoid) ==
    LET next == DependentsOf(m, frontier, avoid) \ seen
    IN  IF next = {} THEN seen ELSE ReachedFrom(m, next, seen \cup next, avoid)

\* the codes reached from c by one edge or more, never entering avoid
Descendants(m, c, avoid) ==
    LET direct == DependentsOf(m, {c}, avoid)
    IN  ReachedFrom(m, direct, direct, avoid)

\* c lies on a directed cycle of the prerequisite relation
OnCycle(m, c) == c \in Descendants(m, c, {})

\* c lies on a directed cycle none of whose codes is in the completed set
OnOpenCycle(m, c) == c \notin m.passed /\ c \in Descendants(m, c, m.passed)

HasCycle(m) == \E c \in Mentioned(m) : OnCycle(m, c)

\* the position of x in a sequence that holds it
PosIn(seq, x) == CHOOSE i \in 1..Len(seq) : seq[i] = x

NoRepeats(seq) == \A i, j \in 1..Len(seq) : seq[i] = seq[j] => i = j

RECURSIVE SumCredits(_, _)
SumCredits(m, codes) ==
    IF codes = <<>> THEN 0 ELSE Credits(m, Head(codes)) + SumCredits(m, Tail(codes))

(***************************************************************************)
(* C1.  On a model whose prerequisite relation is acyclic, topo_sort       *)
(* returns has_cycle = False and cycle = None, and an order that holds     *)
(* every catalog code exactly once with every prerequisite before the      *)
(* course that requires it.                                                *)
(***************************************************************************)
C1_TopoOrderOfAcyclic ==
    (last.op = "topo_sort" /\ ~HasCycle(model)) =>
        /\ last.val.has_cycle = FALSE
        /\ last.val.cycle = <<>>
        /\ Range(last.val.order) = KeySet(model.courses)
        /\ NoRepeats(last.val.order)
        /\ \A e \in Edges(model) :
              PosIn(last.val.order, e[1]) < PosIn(last.val.order, e[2])

\* topo_sort has ordered an acyclic model with a chain of two edges
C1_Witness ==
    /\ last.op = "topo_sort"
    /\ ~HasCycle(model)
    /\ \E e, f \in Edges(model) : e[2] = f[1]
    /\ Len(last.val.order) >= 3

(***************************************************************************)
(* C2.  topo_sort returns has_cycle = True exactly when the prerequisite   *)
(* relation, read as the graph prereq -> course, has a directed cycle; and *)
(* then the cycle returned is a non-empty sequence whose first and last    *)
(* codes are equal and whose consecutive pairs (x, y) are edges: x is a    *)
(* prerequisite of y.                                                      *)
(***************************************************************************)
C2_CycleFlagAndExemplar ==
    (last.op = "topo_sort") =>
        /\ last.val.has_cycle = HasCycle(model)
        /\ last.val.has_cycle =>
              /\ Len(last.val.cycle) = 1
              /\ \A path \in Range(last.val.cycle) :
                    /\ path # <<>>
                    /\ path[1] = path[Len(path)]
                    /\ \A i \in 1..(Len(path) - 1) :
                          path[i] \in PrereqsOf(model, path[i + 1])

\* topo_sort has reported a cycle through three codes
C2_Witness ==
    /\ last.op = "topo_sort"
    /\ last.val.has_cycle
    /\ \E path \in Range(last.val.cycle) : Len(path) = 4

(***************************************************************************)
(* C3.  candidates() returns exactly the catalog codes that are not in the *)
(* completed set and whose prerequisites are all in the completed set, in  *)
(* ascending lexicographic order without duplicates.                       *)
(***************************************************************************)
C3_CandidatesExact ==
    (last.op = "candidates") =>
        /\ Range(last.val) =
              { c \in KeySet(model.courses) :
                  c \notin model.passed /\ PrereqsOf(model, c) \subseteq model.passed }
        /\ \A i, j \in 1..Len(last.val) : i < j => StrLess(last.val[i], last.val[j])

\* candidates() returned two codes or more while a course was blocked and
\* another was completed
C3_Witness ==
    /\ last.op = "candidates"
    /\ Len(last.val) >= 2
    /\ model.passed \cap KeySet(model.courses) # {}
    /\ \E c \in KeySet(model.courses) : ~(PrereqsOf(model, c) \subseteq model.passed)


(***************************************************************************)
(* C4.  For every credit cap >= 0 and every criterion, recognized or not,  *)
(* suggest_next_semester returns a selection made of current candidates,   *)
(* a total equal to the sum of the credits of the chosen courses, and a    *)
(* total that does not exceed the cap.                                     *)
(***************************************************************************)
C4_SelectionWithinCap ==
    (last.op = "suggest_next_semester") =>
        /\ Range(last.val.chosen) \subseteq Range(Candidates(model))
        /\ last.val.total = SumCredits(model, last.val.chosen)
        /\ last.val.total <= last.args[1]

\* a selection of two courses or more with credits, one candidate left out
C4_Witness ==
    /\ last.op = "suggest_next_semester"
    /\ Len(last.val.chosen) >= 2
    /\ last.val.total > 0
    /\ Len(last.val.chosen) < Len(Candidates(model))

(***************************************************************************)
(* C5.  plan_full leaves the caller's model as it was: catalog, edges and  *)
(* completed set after the call are those before it, however many terms    *)
(* were simulated; the completions go to the working copy alone.           *)
(***************************************************************************)
C5_PlanLeavesModel == [][last'.op = "plan_full" => model' = model]_vars

\* plan_full has simulated two terms or more, and its working copy holds
\* completions the caller's model does not
C5_Witness ==
    /\ last.op = "plan_full"
    /\ Len(last.val.semesters) >= 2
    /\ last.val.temp.passed # model.passed
    /\ model.passed # {}

(***************************************************************************)
(* C6.  Round trip: from_dict(to_dict(model)) has the courses (code, name, *)
(* credits), the prerequisite edges and the completed set of the model,    *)
(* and serializing it again lists the same three sets.                     *)
(***************************************************************************)
C6_RoundTrip ==
    (last.op = "round_trip") =>
        /\ Range(last.val.copy.courses) = Range(model.courses)
        /\ Edges(last.val.copy) = Edges(model)
        /\ last.val.copy.passed = model.passed
        /\ Range(last.val.again.courses) = Range(model.courses)
        /\ Range(last.val.again.prerequisites) = Edges(model)
        /\ Range(last.val.again.passed) = model.passed

\* a model with three courses, two edges and a completed course went round
C6_Witness ==
    /\ last.op = "round_trip"
    /\ Len(model.courses) >= 3
    /\ Cardinality(Edges(model)) >= 2
    /\ model.passed # {}
    /\ nops > 0

(***************************************************************************)
(* C7.  As claimed: with credit cap 0, suggest_next_semester returns an    *)
(* empty selection and total 0 whatever candidates are present, zero       *)
(* credit placeholders included.                                           *)
(***************************************************************************)
C7_Original ==
    (last.op = "suggest_next_semester" /\ last.args[1] = 0) =>
        /\ last.val.chosen = <<>>
        /\ last.val.total = 0

(***************************************************************************)
(* C7, amended.  With credit cap 0 (credits being non-negative),           *)
(* suggest_next_semester selects exactly the candidates of zero credits,   *)
(* with total 0: the selection is empty exactly when no candidate has zero *)
(* credits.                                                                *)
(***************************************************************************)
C7_CapZeroTakesZeroCredit ==
    (last.op = "suggest_next_semester" /\ last.args[1] = 0) =>
        /\ Range(last.val.chosen) =
              { c \in Range(Candidates(model)) : Credits(model, c) = 0 }
        /\ NoRepeats(last.val.chosen)
        /\ last.val.total = 0

\* cap 0: a zero credit candidate was selected and one with credits was not
C7_Witness ==
    /\ last.op = "suggest_next_semester"
    /\ last.args[1] = 0
    /\ last.val.chosen # <<>>
    /\ \E c \in Range(Candidates(model)) : Credits(model, c) > 0

(***************************************************************************)
(* C8.  As claimed: the catalog is the universe of codes.  Every code of   *)
(* the edge mapping, course or prerequisite, and every code of the         *)
(* completed set is a code of the catalog.                                 *)
(***************************************************************************)
C8_CatalogIsUniverse ==
    (DOMAIN model.prereqs \cup UNION Range(model.prereqs) \cup model.passed)
        \subseteq KeySet(model.courses)

\* the part of C8 about mark_passed: a call that names an unknown code is
\* rejected and leaves the model as it was, and no other call is rejected
C8_UnknownCompletionRejected ==
    [][last'.op = "mark_passed" =>
          IF last'.args \in KeySet(model.courses)
          THEN last'.raised = "" /\ last'.args \in model'.passed
          ELSE last'.raised = "KeyError" /\ model' = model]_vars

(***************************************************************************)
(* C9.  As claimed: a code on a directed cycle of the prerequisite         *)
(* relation has effective indegree > 0, is not returned by candidates()    *)
(* and is not chosen by suggest_next_semester.                             *)
(***************************************************************************)
C9_Original ==
    /\ \A c \in KeySet(model.courses) :
          OnCycle(model, c) => EffectiveIndegree(model)[c] > 0
    /\ (last.op = "candidates") =>
          \A c \in Range(last.val) : ~OnCycle(model, c)
    /\ (last.op = "suggest_next_semester") =>
          \A c \in Range(last.val.chosen) : ~OnCycle(model, c)

(***************************************************************************)
(* C9, amended.  A code on a directed cycle none of whose codes is in the  *)
(* completed set has effective indegree > 0, is not returned by            *)
(* candidates() and is not chosen by suggest_next_semester.                *)
(***************************************************************************)
C9_OpenCycleNeverEligible ==
    /\ \A c \in KeySet(model.courses) :
          OnOpenCycle(model, c) => EffectiveIndegree(model)[c] > 0
    /\ (last.op = "candidates") =>
          \A c \in Range(last.val) : ~OnOpenCycle(model, c)
    /\ (last.op = "suggest_next_semester") =>
          \A c \in Range(last.val.chosen) : ~OnOpenCycle(model, c)

\* candidates() returned a code while other codes sat on a cycle with no
\* completed code
C9_Witness ==
    /\ last.op = "candidates"
    /\ last.val # <<>>
    /\ \E c \in KeySet(model.courses) : OnOpenCycle(model, c)

(***************************************************************************)
(* C10.  As claimed: once a candidate has been skipped, no later-ranked    *)
(* candidate is added; the selection is an initial stretch of the ranking. *)
(***************************************************************************)
C10_Original ==
    (last.op = "suggest_next_semester") =>
        \A ranked \in { Ranked(model, last.args[2]) } :
            \A i \in 1..Len(last.val.chosen) : last.val.chosen[i] = ranked[i]

\* the candidates ranked before position i and chosen, in ranked order
RECURSIVE TakenBefore(_, _, _)
TakenBefore(ranked, i, chosen) ==
    IF i <= 1 THEN <<>>
    ELSE TakenBefore(ranked, i - 1, chosen)
         \o (IF ranked[i - 1] \in Range(chosen) THEN << ranked[i - 1] >> ELSE <<>>)

(***************************************************************************)
(* C10, amended.  suggest_next_semester scans the ranking once, in order:  *)
(* a candidate is taken exactly when its credits fit in the cap on top of  *)
(* the candidates taken before it, and the selection lists the taken ones  *)
(* in ranked order.  A skipped candidate does not end the scan: a later    *)
(* candidate that fits is still added.                                     *)
(***************************************************************************)
C10_GreedyScanBackfills ==
    (last.op = "suggest_next_semester") =>
        \A ranked \in { Ranked(model, last.args[2]) } :
            /\ last.val.chosen = TakenBefore(ranked, Len(ranked) + 1, last.val.chosen)
            /\ \A i \in 1..Len(ranked) :
                  ranked[i] \in Range(last.val.chosen) <=>
                      SumCredits(model, TakenBefore(ranked, i, last.val.chosen))
                          + Credits(model, ranked[i]) <= last.args[1]

\* a candidate was skipped and a later-ranked one was taken
C10_Witness ==
    /\ last.op = "suggest_next_semester"
    /\ \E ranked \in { Ranked(model, last.args[2]) } :
          \E i, j \in 1..Len(ranked) :
              /\ i < j
              /\ ranked[i] \notin Range(last.val.chosen)
              /\ ranked[j] \in Range(last.val.chosen)

(***************************************************************************)
(* C11.  As claimed: the plan plan_full returns is a valid schedule.  It   *)
(* has at most max_semesters terms, every term is non-empty, no course is  *)
(* in more than one term, no course of the caller's completed set is in a  *)
(* term, and every prerequisite of a course of term k is in the caller's   *)
(* completed set or in a term before k.                                    *)
(***************************************************************************)
C11_PlanIsValidSchedule ==
    (last.op = "plan_full" /\ last.raised = "") =>
        \A sems \in { last.val.semesters } :
            /\ Len(sems) <= last.args[3]
            /\ \A k \in 1..Len(sems) :
                  /\ sems[k].chosen # <<>>
                  /\ NoRepeats(sems[k].chosen)
                  /\ \A j \in 1..(k - 1) :
                        Range(sems[j].chosen) \cap Range(sems[k].chosen) = {}
                  /\ \A c \in Range(sems[k].chosen) :
                        /\ c \notin model.passed
                        /\ \A p \in PrereqsOf(model, c) :
                              \/ p \in model.passed
                              \/ \E j \in 1..(k - 1) : p \in Range(sems[j].chosen)

\* the part of C11 that holds: when no catalog code carries a blank at
\* either end (mark_passed strips the code it is given), the plan returned
\* is a valid schedule
C11_ValidWhenCodesStripped ==
    (\A c \in KeySet(model.courses) : Strip(c) = c) => C11_PlanIsValidSchedule


====
